---- MODULE Spec2Model ----
(***************************************************************************)
(* Contact-form backend of abu-projects/tanja.                             *)
(*                                                                         *)
(* One POST request is followed through one of the handler variants:       *)
(*   "P0"  unnamed/part_000            Resend, then MailChannels, reasons  *)
(*   "P1a" unnamed/part_001:14-180     Resend if key, then MailChannels    *)
(*   "P1b" unnamed/part_001:291-440    MailChannels, key required          *)
(*   "FN"  functions/api/contact.js    reCAPTCHA gate, MailChannels        *)
(*   "P4"  unnamed/part_004            MailChannels, no key                *)
(*   "PHP" unnamed/part_002:1-170      contact.php, mail()                 *)
(*                                                                         *)
(* A string is a sequence of tokens: a request value is a sequence of      *)
(* one-character tokens, a literal of the code is one token (umlauts of   *)
(* the German literals are written ae, oe, ue).  Every exchange with the   *)
(* outside (form parsing, verification service, providers, body reads) is  *)
(* one action per outcome: it resolves with a drawn reply, or it rejects.  *)
(*                                                                         *)
(* Specifications:                                                         *)
(*   Spec        one POST handed to a handler variant by the platform      *)
(*   SpecRouter  one request of any method and path handed to a Worker     *)
(*               entry point (unnamed/part_003, unnamed/part_002:172-209)  *)
(*               in front of functions/api/contact.js                      *)
(*   SpecHtml    POSTs whose values carry HTML markup, up to the request   *)
(*               that carries the composed mail                            *)
(*   SpecEmail   POSTs that differ in the email value only, up to the end  *)
(*               of validation                                             *)
(***************************************************************************)
EXTENDS Integers, Sequences, FiniteSets, TLC

VARIABLES variant, form, env, req, pc, loc, calls, invoked, response, uncaught,
          other

vars == <<variant, form, env, req, pc, loc, calls, invoked, response, uncaught, other>>

(***************************************************************************)
(* Bounds and program constants                                            *)
(***************************************************************************)
\* longest provider error body drawn as a reply
MaxBodyLen == 2
\* longest run of drawn characters in front of a message put into the HTML body
MaxHtmlLen == 2
\* longest email value drawn character by character
MaxEmailLen == 6
\* message.length < 10
MinMessageLen == 10
\* score >= 0.5, scores counted in tenths
MinScoreTenths == 5
\* .slice(0, 220)
MaxErrorText == 220

(***************************************************************************)
(* Strings                                                                 *)
(***************************************************************************)
\* \s of the regular expressions and of String.prototype.trim
IsSpace(c) == c \in {" ", "\t", "\n"}

RECURSIVE TrimStart(_)
TrimStart(s) ==
    IF s # <<>> /\ IsSpace(Head(s)) THEN TrimStart(Tail(s)) ELSE s

RECURSIVE TrimEnd(_)
TrimEnd(s) ==
    IF s # <<>> /\ IsSpace(s[Len(s)]) THEN TrimEnd(SubSeq(s, 1, Len(s) - 1)) ELSE s

\* String.prototype.trim
Trim(s) == TrimEnd(TrimStart(s))

\* Array.prototype.join
RECURSIVE Join(_, _)
Join(list, sep) ==
    IF list = <<>> THEN <<>>
    ELSE IF Len(list) = 1 THEN list[1]
    ELSE list[1] \o sep \o Join(Tail(list), sep)

\* .replace(/\s+/g, ' '): the first character of every run of whitespace is
\* kept, as a space, and the rest of the run is dropped
CollapseSpaces(s) ==
    LET kept == SelectSeq([i \in 1..Len(s) |-> i],
                          LAMBDA i : ~IsSpace(s[i]) \/ i = 1 \/ ~IsSpace(s[i - 1]))
    IN  [k \in 1..Len(kept) |-> IF IsSpace(s[kept[k]]) THEN " " ELSE s[kept[k]]]

\* .slice(0, n)
Slice0(s, n) == SubSeq(s, 1, IF Len(s) < n THEN Len(s) ELSE n)

\* String(text || '').replace(/\s+/g, ' ').trim().slice(0, 220)
sanitizeErrorText(text) == Slice0(Trim(CollapseSpaces(text)), MaxErrorText)

\* s occurs in t as a contiguous run of tokens (String.prototype.includes)
Includes(t, s) ==
    \E i \in 0..(Len(t) - Len(s)) : SubSeq(t, i + 1, i + Len(s)) = s

\* n copies of the token c
Rep(c, n) == [i \in 1..n |-> c]

\* all strings over the alphabet A of length at most n
RECURSIVE StringsUpTo(_, _)
StringsUpTo(A, n) ==
    IF n = 0 THEN {<<>>}
    ELSE LET shorter == StringsUpTo(A, n - 1)
         IN  shorter \cup {Append(s, c) : s \in shorter, c \in A}

\* the pattern without its \.[^\s@]+ part
EmailRegexTestNoDot(s) ==
    \E i \in 1..Len(s) :
        /\ s[i] = "@"
        /\ i > 1 /\ \A k \in 1..(i - 1) : ~IsSpace(s[k]) /\ s[k] # "@"
        /\ i < Len(s) /\ \A k \in (i + 1)..Len(s) : ~IsSpace(s[k]) /\ s[k] # "@"

\* /^[^\s@]+@[^\s@]+\.[^\s@]+$/.test(s)
IsAtomChar(c) == ~IsSpace(c) /\ c # "@"
AllAtom(s, lo, hi) == lo <= hi /\ \A k \in lo..hi : IsAtomChar(s[k])
EmailRegexTest(s) ==
    \E i \in 1..Len(s) : \E j \in 1..Len(s) :
        /\ i < j
        /\ s[i] = "@"
        /\ s[j] = "."
        /\ AllAtom(s, 1, i - 1)
        /\ AllAtom(s, i + 1, j - 1)
        /\ AllAtom(s, j + 1, Len(s))

(***************************************************************************)
(* PHP built-ins used by contact.php                                       *)
(***************************************************************************)
\* empty($s) for a string: "" and "0" are empty
PhpEmpty(s) == s = <<>> \/ s = <<"0">>

\* FILTER_SANITIZE_SPECIAL_CHARS: HTML-encodes ' " < > & and characters below 32
PhpSpecialChar(c) ==
    CASE c = "<"  -> "&#60;"
      [] c = ">"  -> "&#62;"
      [] c = "&"  -> "&#38;"
      [] c = "\"" -> "&#34;"
      [] c = "'"  -> "&#39;"
      [] c = "\t" -> "&#9;"
      [] c = "\n" -> "&#10;"
      [] OTHER    -> c
PhpSanitizeSpecialChars(s) == [k \in 1..Len(s) |-> PhpSpecialChar(s[k])]

\* FILTER_SANITIZE_EMAIL: drops every character outside letters, digits and
\* !#$%&'*+-=?^_`{|}~@.[]
PhpEmailDropped(c) == IsSpace(c) \/ c \in {"<", ">", "\"", "(", ")", ",", ";", ":"}
PhpSanitizeEmail(s) == SelectSeq(s, LAMBDA c : ~PhpEmailDropped(c))

\* FILTER_VALIDATE_EMAIL on the alphabet of the model: one "@", a dot-atom
\* before it, at least two non-empty labels after it
DotAtom(s, lo, hi) ==
    /\ lo <= hi
    /\ s[lo] # "." /\ s[hi] # "."
    /\ \A k \in lo..hi : IsAtomChar(s[k])
    /\ \A k \in lo..(hi - 1) : ~(s[k] = "." /\ s[k + 1] = ".")
PhpValidateEmail(s) ==
    \E i \in 1..Len(s) :
        /\ s[i] = "@"
        /\ DotAtom(s, 1, i - 1)
        /\ DotAtom(s, i + 1, Len(s))
        /\ \E j \in (i + 1)..Len(s) : s[j] = "."

(***************************************************************************)
(* Literals of the handlers                                                *)
(***************************************************************************)
MsgHoneypot == <<"Nachricht erfolgreich gesendet.">>
MsgThanks == <<"Vielen Dank! Ihre Nachricht wurde erfolgreich gesendet. Ich melde mich in Kuerze bei Ihnen.">>
ErrVorname == <<"Bitte geben Sie Ihren Vornamen ein.">>
ErrNachname == <<"Bitte geben Sie Ihren Nachnamen ein.">>
ErrEmail == <<"Bitte geben Sie eine gueltige E-Mail-Adresse ein.">>
ErrMessage == <<"Bitte geben Sie eine Nachricht ein.">>
ErrMessageShort == <<"Bitte schreiben Sie eine etwas ausfuehrlichere Nachricht.">>
ErrPrivacy == <<"Bitte stimmen Sie der Datenschutzerklaerung zu.">>
MsgSpamNoToken == <<"Spam-Schutz fehlgeschlagen. Bitte laden Sie die Seite neu und versuchen Sie es erneut.">>
MsgSpamUnverified == <<"Spam-Schutz konnte nicht ueberprueft werden. Bitte spaeter erneut versuchen.">>
MsgSpamRejected == <<"Ihre Anfrage konnte aus Sicherheitsgruenden nicht gesendet werden.">>
MsgGeneric == <<"Es gab einen Fehler beim Senden. Bitte versuchen Sie es erneut oder schreiben Sie direkt an info@marknate.ch.">>
MsgNotSetUpDirect == <<"E-Mail-Versand ist nicht korrekt eingerichtet. Bitte senden Sie direkt an info@marknate.ch.">>
MsgNotSetUp == <<"E-Mail-Versand ist nicht eingerichtet.">>
MsgSendFailed == <<"E-Mail-Versand fehlgeschlagen.">>
ReasonResendKeyMissing == <<"RESEND_API_KEY fehlt">>
ReasonMcKeyMissing == <<"MAILCHANNELS_API_KEY fehlt">>
HintMcKeyMissing == <<" Hinweis: MAILCHANNELS_API_KEY ist nicht gesetzt.">>
ExpectedAction == "kontaktformular"

SpamMessages == {MsgSpamNoToken, MsgSpamUnverified, MsgSpamRejected}

(***************************************************************************)
(* Variants, requests, environments, replies                               *)
(***************************************************************************)
JsVariants == {"P0", "P1a", "P1b", "FN", "P4"}
Variants == JsVariants \cup {"PHP"}
TwoProviderVariants == {"P0", "P1a"}

Missing == [has |-> FALSE, v |-> <<>>]
Val(s) == [has |-> TRUE, v |-> s]

VornameInputs == {Missing, Val(<<" ">>), Val(<<" ", "a">>), Val(<<"0">>)}
NachnameInputs == {Val(<<>>), Val(<<"b", " ">>)}
EmailInputs ==
    {Missing, Val(<<" ", "a", "@", "b", ".", "c">>), Val(<<"a", "@", "b">>),
     Val(<<"a", " ", "@", "b", ".", "c">>)}
MessageInputs ==
    {Missing, Val(<<"h", "i">>),
     Val(<<" ">> \o Rep("m", MinMessageLen - 1) \o <<" ">>),
     Val(Rep("m", MinMessageLen))}
PrivacyInputs == {Missing, Val(<<"o", "n">>), Val(<<" ">>)}
WebsiteInputs == {Missing, Val(<<" ">>), Val(<<"0">>), Val(<<"x", " ">>)}
TokenInputs == {Missing, Val(<<"t">>)}

Forms ==
    [vorname : VornameInputs, nachname : NachnameInputs, email : EmailInputs,
     message : MessageInputs, privacy : PrivacyInputs, website : WebsiteInputs,
     recaptchaToken : TokenInputs]

EnvKeys == {"RESEND_API_KEY", "MAILCHANNELS_API_KEY", "MAILCHANNELS_KEY", "RECAPTCHA_SECRET"}

\* the environment keys a variant reads
KeysRead(v) ==
    CASE v = "P0"  -> {"RESEND_API_KEY", "MAILCHANNELS_API_KEY"}
      [] v = "P1a" -> {"RESEND_API_KEY"}
      [] v = "P1b" -> {"MAILCHANNELS_API_KEY"}
      [] v = "FN"  -> {"MAILCHANNELS_API_KEY", "MAILCHANNELS_KEY", "RECAPTCHA_SECRET"}
      [] OTHER     -> {}

\* HTTP statuses a provider or the verification service answers with
Statuses == {200, 202, 301, 401, 500}
StatusText(n) ==
    CASE n = 200 -> "200" [] n = 202 -> "202" [] n = 301 -> "301"
      [] n = 401 -> "401" [] n = 500 -> "500"

\* a response body longer than the excerpt kept of it, with a run of spaces
LongBody == <<" ">> \o Rep("x", MaxErrorText) \o <<" ", " ", "x">>

\* response bodies of a failing provider
Bodies == StringsUpTo({" ", "x"}, MaxBodyLen) \cup {LongBody}

\* an exception text longer than the excerpt, with a run of tabs
LongError == <<"E", "\t", "\t">> \o Rep("e", MaxErrorText)

\* String(err) of a rejected promise
Errors == {<<"TypeError: fetch failed">>, LongError}

\* request.method, url.pathname and the client-address headers of a request;
\* router names the Worker entry point in front of the handler, "none" when
\* the platform invokes onRequestPost itself
Routers == {"part_003", "part_002"}
Methods == {"POST", "OPTIONS", "GET", "DELETE"}
Paths == {"/api/contact", "/submit", "/index.html"}
IpInputs == {Missing, Val(<<"1">>)}
DirectPost ==
    [router |-> "none", method |-> "POST", path |-> "/api/contact", ip |-> Missing]

\* verifyData of the verification service: score in tenths; scoreIsNumber is
\* typeof verifyData.score === 'number'; action "" is a missing action
VerifyDatas ==
    [success : BOOLEAN, scoreIsNumber : BOOLEAN,
     score : {MinScoreTenths - 1, MinScoreTenths},
     action : {"", ExpectedAction, "login"}]

\* verifyData before the verification service has answered
NoVerifyData == [success |-> FALSE, scoreIsNumber |-> FALSE, score |-> 0, action |-> ""]

(***************************************************************************)
(* Input Normalizer and Validator                                          *)
(***************************************************************************)
\* (formData.get(name) || '')
OrEmpty(f) == IF f.has THEN f.v ELSE <<>>

\* (formData.get(name) || '').trim() for the seven fields
Normalize(fd) ==
    [vorname        |-> Trim(OrEmpty(fd.vorname)),
     nachname       |-> Trim(OrEmpty(fd.nachname)),
     email          |-> Trim(OrEmpty(fd.email)),
     message        |-> Trim(OrEmpty(fd.message)),
     privacy        |-> Trim(OrEmpty(fd.privacy)),
     honeypot       |-> Trim(OrEmpty(fd.website)),
     recaptchaToken |-> Trim(OrEmpty(fd.recaptchaToken))]

\* if (honeypot)
HoneypotTriggered(f) == f.honeypot # <<>>

\* the variant with the minimum-length rule on the message
StrictMessageAll(v) == TRUE
StrictMessage(v) == v = "FN"

\* !email || !regex.test(email)
EmailInvalid(email) == email = <<>> \/ ~EmailRegexTest(email)

\* the errors array after the validation block, in the order of the pushes
ValidateShortCircuit(v, f) ==
    IF f.vorname = <<>> THEN <<ErrVorname>>
    ELSE IF f.nachname = <<>> THEN <<ErrNachname>>
    ELSE IF EmailInvalid(f.email) THEN <<ErrEmail>>
    ELSE IF f.message = <<>> THEN <<ErrMessage>>
    ELSE IF f.privacy = <<>> THEN <<ErrPrivacy>>
    ELSE <<>>
Validate(v, f) ==
       (IF f.vorname = <<>> THEN <<ErrVorname>> ELSE <<>>)
    \o (IF f.nachname = <<>> THEN <<ErrNachname>> ELSE <<>>)
    \o (IF EmailInvalid(f.email) THEN <<ErrEmail>> ELSE <<>>)
    \o (IF f.message = <<>> THEN <<ErrMessage>> ELSE <<>>)
    \o (IF StrictMessage(v) /\ f.message # <<>> /\ Len(f.message) < MinMessageLen
        THEN <<ErrMessageShort>> ELSE <<>>)
    \o (IF f.privacy = <<>> THEN <<ErrPrivacy>> ELSE <<>>)

\* if (errors.length > 0)
ValidationFailedNever(errs) == FALSE
ValidationFailed(errs) == Len(errs) > 0

\* errors.join(' ')
JoinErrorsNoSeparator(errs) == Join(errs, <<>>)
JoinErrors(errs) == Join(errs, <<" ">>)

(***************************************************************************)
(* Response Builder                                                        *)
(***************************************************************************)
\* the corsHeaders object of onRequestPost
corsHeaders(v) ==
    [h \in {"Access-Control-Allow-Origin", "Access-Control-Allow-Methods",
            "Access-Control-Allow-Headers", "Content-Type"} |->
        CASE h = "Access-Control-Allow-Origin"  -> "*"
          [] h = "Access-Control-Allow-Methods" -> "POST, OPTIONS"
          [] h = "Access-Control-Allow-Headers" ->
                 IF v = "FN" THEN "Content-Type, Accept" ELSE "Content-Type"
          [] h = "Content-Type" -> "application/json; charset=utf-8"]

\* the header() calls of contact.php
phpHeaders ==
    [h \in {"Access-Control-Allow-Origin", "Access-Control-Allow-Methods",
            "Access-Control-Allow-Headers", "Content-Type"} |->
        CASE h = "Access-Control-Allow-Origin"  -> "*"
          [] h = "Access-Control-Allow-Methods" -> "POST"
          [] h = "Access-Control-Allow-Headers" -> "Content-Type"
          [] h = "Content-Type" -> "application/json; charset=utf-8"]

\* { success, message } and { success, message, details }
Payload(success, message) ==
    [success |-> success, message |-> message, hasDetails |-> FALSE, details |-> <<>>]
PayloadD(success, message, details) ==
    [success |-> success, message |-> message, hasDetails |-> TRUE, details |-> details]

\* new Response(JSON.stringify(payload), { status, headers })
json(payload, status, headers) ==
    [status |-> status, body |-> payload, headers |-> headers]

NoResponse == [status |-> 0, body |-> Payload(FALSE, <<>>), headers |-> <<>>]

\* the success response with the status of an accepted request
successResponseAccepted(headers) == json(Payload(TRUE, MsgThanks), 202, headers)
successResponse(headers) == json(Payload(TRUE, MsgThanks), 200, headers)

\* the catch block answering as for a rejected submission
CatchResponseUnprocessable(v, err) ==
    json(PayloadD(FALSE, MsgGeneric, <<"Runtime: ">> \o err), 422, corsHeaders(v))

\* the catch block of onRequestPost
CatchResponse(v, err) ==
    IF v \in {"P1b", "FN"}
    THEN json(PayloadD(FALSE, MsgGeneric, <<"Runtime: ">> \o err), 500, corsHeaders(v))
    ELSE json(Payload(FALSE, MsgGeneric), 500, corsHeaders(v))

(***************************************************************************)
(* The HTML body of the mail                                               *)
(***************************************************************************)
\* the scan of replace(/c/g, r) from position i of s on
RECURSIVE ReplaceFrom(_, _, _, _)
ReplaceFrom(s, i, c, r) ==
    IF i > Len(s) THEN <<>>
    ELSE (IF s[i] = c THEN r ELSE <<s[i]>>) \o ReplaceFrom(s, i + 1, c, r)

\* String.prototype.replace(/c/g, r): every token c becomes the tokens of r;
\* the receiver is evaluated once and then scanned
ReplaceAll(s, c, r) == CHOOSE out \in {ReplaceFrom(v, 1, c, r) : v \in {s}} : TRUE

\* the entities escapeHtml writes, one token per character
EntAmp == <<"&", "a", "m", "p", ";">>
EntLt == <<"&", "l", "t", ";">>
EntGt == <<"&", "g", "t", ";">>
EntQuot == <<"&", "q", "u", "o", "t", ";">>
EntApos == <<"&", "#", "0", "3", "9", ";">>

\* escapeHtml: the five replace calls in their order
escapeHtmlNoQuotes(str) ==
    ReplaceAll(ReplaceAll(ReplaceAll(str, "&", EntAmp), "<", EntLt), ">", EntGt)
escapeHtml(str) ==
    ReplaceAll(
      ReplaceAll(
        ReplaceAll(
          ReplaceAll(
            ReplaceAll(str, "&", EntAmp),
            "<", EntLt),
          ">", EntGt),
        "\"", EntQuot),
      "'", EntApos)

\* `${vorname} ${nachname}`
FullName(f) == f.vorname \o <<" ">> \o f.nachname

\* new Date().toLocaleString('de-CH')
DateText == <<"1.11.2026, 10:00:00">>

\* headers.get('cf-connecting-ip') || headers.get('x-forwarded-for') || 'Unbekannt'
ClientIp(ip) == IF ip.has /\ ip.v # <<>> THEN ip.v ELSE <<"Unbekannt">>

\* String(n) of a score counted in tenths
Digit(n) == <<"0", "1", "2", "3", "4", "5", "6", "7", "8", "9">>[n + 1]
ScoreString(n) ==
    IF n = 0 THEN <<"0">>
    ELSE IF n >= 10 THEN <<"1">>
    ELSE <<"0", ".", Digit(n)>>

\* String(recaptchaCheck.score ?? 'nicht aktiv')
NoScore == [has |-> FALSE, v |-> 0]
ScoreText(score) == IF score.has THEN ScoreString(score.v) ELSE <<"nicht aktiv">>

\* escapeHtml(message).replace(/\n/g, '<br>')
MessageHtml(message) == ReplaceAll(escapeHtml(message), "\n", <<"<br>">>)

\* the htmlBody template literal: the literal text between two interpolations
\* is one token
htmlBody(v, f, ip, score) ==
    IF v \in {"P1b", "FN"}
    THEN   <<"<!DOCTYPE html>...<h2>Neue Kontaktanfrage</h2><p><strong>Name:</strong> ">>
        \o escapeHtml(FullName(f))
        \o <<"</p><p><strong>E-Mail:</strong> <a href=\"mailto:">>
        \o escapeHtml(f.email)
        \o <<"\">">>
        \o escapeHtml(f.email)
        \o <<"</a></p><p><strong>Nachricht:</strong><br>">>
        \o MessageHtml(f.message)
        \o <<"</p><hr><p><small>Gesendet am: ">>
        \o escapeHtml(DateText)
        \o <<" | Datenschutz akzeptiert: Ja">>
        \o (IF v = "FN"
            THEN   <<" | IP: ">> \o escapeHtml(ClientIp(ip))
                \o <<" | reCAPTCHA Score: ">> \o escapeHtml(ScoreText(score))
            ELSE <<>>)
        \o <<"</small></p></body></html>">>
    ELSE   <<"<!DOCTYPE html>...<div class=\"field-label\">Name</div><div class=\"field-value\">">>
        \o escapeHtml(FullName(f))
        \o <<"</div>...<div class=\"field-value\"><a href=\"mailto:">>
        \o escapeHtml(f.email)
        \o <<"\" style=\"color: #129d63; text-decoration: none;\">">>
        \o escapeHtml(f.email)
        \o <<"</a></div>...<div class=\"field-value message-value\">">>
        \o MessageHtml(f.message)
        \o <<"</div>...<div class=\"footer\">Gesendet ueber marknate.ch Kontaktformular am ">>
        \o DateText
        \o <<"<br>Datenschutz akzeptiert: Ja</div></div></body></html>">>

(***************************************************************************)
(* Provider results                                                        *)
(***************************************************************************)
NotTried == [tried |-> FALSE, ok |-> FALSE, hasReason |-> FALSE, reason |-> <<>>]
Succeeded == [tried |-> TRUE, ok |-> TRUE, hasReason |-> FALSE, reason |-> <<>>]
\* { ok: false, reason } of part_000, and the bare false of part_001
FailedWith(v, reason) ==
    IF v = "P0"
    THEN [tried |-> TRUE, ok |-> FALSE, hasReason |-> TRUE, reason |-> reason]
    ELSE [tried |-> TRUE, ok |-> FALSE, hasReason |-> FALSE, reason |-> <<>>]

\* response.status === 200
IsOkOnly200(status) == status = 200
\* response.ok
IsOk(status) == status >= 200 /\ status <= 299

\* response.ok || response.status === 202
McAcceptedOnly200(status) == status = 200
McAccepted(status) == IsOk(status) \/ status = 202

\* `${provider} ${response.status}: ${sanitizeErrorText(errText)}`
StatusReason(provider, status, errText) ==
    <<provider, " ", StatusText(status), ": ">> \o sanitizeErrorText(errText)

\* `${provider} request failed: ${String(err)}`
RequestFailedReason(provider, err) == <<provider, " request failed: ">> \o err

\* [resendResult.reason, mailChannelsResult.reason].filter(Boolean).join(' | ')
debugDetails(r1, r2) ==
    Join(SelectSeq(<<r1, r2>>, LAMBDA r : r # <<>>), <<" | ">>)

(***************************************************************************)
(* State                                                                   *)
(***************************************************************************)
\* no second invocation is in progress
NoInvocation == [pc |-> "none"]

\* the locals of one invocation
InitLoc ==
    [fields    |-> Normalize([vorname |-> Missing, nachname |-> Missing,
                              email |-> Missing, message |-> Missing,
                              privacy |-> Missing, website |-> Missing,
                              recaptchaToken |-> Missing]),
     parsed    |-> FALSE,
     validated |-> FALSE,
     errors    |-> <<>>,
     gate      |-> "none",
     resend    |-> NotTried,
     mc        |-> NotTried,
     resendStatus |-> 0,
     mcStatus     |-> 0,
     score        |-> NoScore,
     htmlBody     |-> <<>>,
     err          |-> <<>>,
     errAt        |-> "",
     verifyStatus |-> 0,
     verifyData   |-> NoVerifyData,
     replies      |-> <<>>]

Init ==
    /\ variant \in Variants
    /\ form \in Forms
    /\ (variant # "FN" => form.recaptchaToken = Missing)
    /\ env \in [EnvKeys -> BOOLEAN]
    /\ \A k \in EnvKeys \ KeysRead(variant) : ~env[k]
    /\ req = DirectPost
    /\ pc = IF variant = "PHP" THEN "php" ELSE "formData"
    /\ loc = InitLoc
    /\ calls = <<>>
    /\ invoked = <<>>
    /\ response = NoResponse
    /\ uncaught = FALSE
    /\ other = NoInvocation

\* return <response>
Return(l, r) ==
    /\ loc' = l
    /\ response' = r
    /\ pc' = "done"
    /\ UNCHANGED <<calls, uncaught>>

\* await fetch(<endpoint>, ...): the request is issued and the handler suspends
Await(l, endpoint, next) ==
    /\ loc' = l
    /\ calls' = Append(calls, endpoint)
    /\ pc' = next
    /\ UNCHANGED <<response, uncaught>>

\* the awaits of onRequestPost that lie inside its try block
InTry(p) == p \in {"formData", "verifyFetch", "verifyJson", "resendFetch",
                   "resendText", "mcFetch", "mcText"}

\* the locals after the await the handler is suspended on has settled:
\* settled is "status" for a response, "value" for a body, "error" for a
\* rejection
Got(l, settled, status, text, data) ==
    [l EXCEPT !.replies = Append(@, [at |-> pc, settled |-> settled, status |-> status,
                                     text |-> text, data |-> data])]

\* the locals with the exception raised at the await the handler is suspended on
WithError(l, err) ==
    [Got(l, "error", 0, err, NoVerifyData) EXCEPT !.err = err, !.errAt = pc]

\* an exception raised at the await the handler is suspended on
Throw(l, err) ==
    IF InTry(pc)
    THEN Return(WithError(l, err), CatchResponse(variant, err))
    ELSE /\ uncaught' = TRUE
         /\ pc' = "done"
         /\ loc' = WithError(l, err)
         /\ UNCHANGED <<response, calls>>

(***************************************************************************)
(* Delivery Dispatcher                                                     *)
(***************************************************************************)
\* apiKey of the MailChannels request
McApiKey(v, e) ==
    CASE v = "FN"  -> e["MAILCHANNELS_API_KEY"] \/ e["MAILCHANNELS_KEY"]
      [] v = "P1b" -> e["MAILCHANNELS_API_KEY"]
      [] v = "P0"  -> e["MAILCHANNELS_API_KEY"]
      [] OTHER     -> FALSE

\* if (!apiKey) return json({... 'MAILCHANNELS_API_KEY fehlt'}, 500)
McKeyRequiredNever(v) == FALSE
McKeyRequired(v) == v = "P1b"

\* whether the Resend request is issued
ResendConfigured(v, e) == e["RESEND_API_KEY"]

\* the fallback: await sendViaMailChannels(...)
Fallback(l) == Await(l, "mailchannels", "mcFetch")

\* the delivery stage up to its first await
Dispatch(l) ==
    LET lh == [l EXCEPT !.htmlBody = htmlBody(variant, l.fields, req.ip, l.score)]
    IN  IF variant \in TwoProviderVariants
        THEN IF ResendConfigured(variant, env)
             THEN Await(lh, "resend", "resendFetch")
             ELSE Fallback([lh EXCEPT !.resend =
                               IF variant = "P0"
                               THEN FailedWith(variant, ReasonResendKeyMissing)
                               ELSE NotTried])
        ELSE IF McKeyRequired(variant) /\ ~McApiKey(variant, env)
             THEN Return(l, json(PayloadD(FALSE, MsgNotSetUp, ReasonMcKeyMissing),
                                 500, corsHeaders(variant)))
             ELSE Await(lh, "mailchannels", "mcFetch")

\* the handler left waiting on a promise that nothing settles
DeliveryFailedHangs(l) ==
    /\ pc' = "hung"
    /\ loc' = l
    /\ UNCHANGED <<calls, response, uncaught>>

\* the failed MailChannels request issued once more
DeliveryFailedRetry(l) == Await(l, "mailchannels", "mcFetch")

\* the failure response with the provider's reason appended to message
DeliveryFailedLeaky(l) ==
    Return(l, json(Payload(FALSE, MsgSendFailed \o l.mc.reason \o l.resend.reason),
                   500, corsHeaders(variant)))
\* the response after the last provider failed
DeliveryFailed(l) ==
    CASE variant = "P0" ->
           Return(l, json(PayloadD(FALSE, MsgNotSetUpDirect,
                                   debugDetails(l.resend.reason, l.mc.reason)),
                          500, corsHeaders(variant)))
      [] variant \in {"P1a", "P4"} ->
           Return(l, json(Payload(FALSE, MsgGeneric), 500, corsHeaders(variant)))
      [] variant \in {"P1b", "FN"} ->
           Return(l, json(PayloadD(FALSE, MsgSendFailed,
                                   l.mc.reason \o
                                   (IF variant = "FN" /\ ~McApiKey(variant, env)
                                    THEN HintMcKeyMissing ELSE <<>>)),
                          500, corsHeaders(variant)))

(***************************************************************************)
(* Bot-Score Gate                                                          *)
(***************************************************************************)
\* verifyRecaptcha asking the verification service whatever the token is
GateWithoutTokenTest(l) ==
    IF ~env["RECAPTCHA_SECRET"]
    THEN Dispatch([l EXCEPT !.gate = "off"])
    ELSE Await(l, "siteverify", "verifyFetch")

\* verifyRecaptcha up to its first await
Gate(l) ==
    IF ~env["RECAPTCHA_SECRET"]
    THEN Dispatch([l EXCEPT !.gate = "off"])
    ELSE IF l.fields.recaptchaToken = <<>>
         THEN Return([l EXCEPT !.gate = "rejected"],
                     json(Payload(FALSE, MsgSpamNoToken), 422, corsHeaders(variant)))
         ELSE Await(l, "siteverify", "verifyFetch")

\* the test without the score
VerifySuccessAnyScore(d) == d.success /\ d.action = ExpectedAction

\* verifyData.success === true && score >= 0.5 && action === 'kontaktformular'
VerifySuccess(d) ==
    LET score == IF d.scoreIsNumber THEN d.score ELSE 0
    IN  d.success /\ score >= MinScoreTenths /\ d.action = ExpectedAction

(***************************************************************************)
(* onRequestPost, one action per await                                     *)
(***************************************************************************)
\* await context.request.formData() resolves: the handler runs to its next await
FormDataResolves ==
    /\ pc = "formData"
    /\ LET f == Normalize(form)
           l == [Got(loc, "value", 0, <<>>, NoVerifyData) EXCEPT !.fields = f, !.parsed = TRUE]
           errs == Validate(variant, f)
           lv == [l EXCEPT !.errors = errs, !.validated = TRUE]
       IN  IF HoneypotTriggered(f)
           THEN Return(l, json(Payload(TRUE, MsgHoneypot), 200, corsHeaders(variant)))
           ELSE IF ValidationFailed(errs)
                THEN Return(lv, json(Payload(FALSE, JoinErrors(errs)), 422,
                                     corsHeaders(variant)))
                ELSE IF variant = "FN" THEN Gate(lv) ELSE Dispatch(lv)
    /\ UNCHANGED <<variant, form, env, req, invoked, other>>

\* await context.request.formData() rejects
FormDataRejects ==
    /\ pc = "formData"
    /\ \E err \in Errors : Throw(loc, err)
    /\ UNCHANGED <<variant, form, env, req, invoked, other>>

\* the verification request rejects: verifyRecaptcha has no try of its own
VerifyFetchRejects ==
    /\ pc = "verifyFetch"
    /\ \E err \in Errors : Throw(loc, err)
    /\ UNCHANGED <<variant, form, env, req, invoked, other>>

\* the verification service answers
VerifyFetchResponds ==
    /\ pc = "verifyFetch"
    /\ \E status \in Statuses :
          IF ~IsOk(status)
          THEN Return([Got(loc, "status", status, <<>>, NoVerifyData)
                          EXCEPT !.gate = "rejected", !.verifyStatus = status],
                      json(Payload(FALSE, MsgSpamUnverified), 422, corsHeaders(variant)))
          ELSE /\ pc' = "verifyJson"
               /\ loc' = [Got(loc, "status", status, <<>>, NoVerifyData)
                              EXCEPT !.verifyStatus = status]
               /\ UNCHANGED <<calls, response, uncaught>>
    /\ UNCHANGED <<variant, form, env, req, invoked, other>>

\* await verifyResponse.json() rejects
VerifyJsonRejects ==
    /\ pc = "verifyJson"
    /\ \E err \in Errors : Throw(loc, err)
    /\ UNCHANGED <<variant, form, env, req, invoked, other>>

\* await verifyResponse.json() resolves
VerifyJsonResolves ==
    /\ pc = "verifyJson"
    /\ \E d \in VerifyDatas :
          IF ~VerifySuccess(d)
          THEN Return([Got(loc, "value", 0, <<>>, d)
                          EXCEPT !.gate = "rejected", !.verifyData = d],
                      json(Payload(FALSE, MsgSpamRejected), 422, corsHeaders(variant)))
          ELSE Dispatch([Got(loc, "value", 0, <<>>, d)
                                    EXCEPT !.gate = "passed", !.verifyData = d,
                                    !.score = [has |-> TRUE,
                                               v |-> IF d.scoreIsNumber
                                                     THEN d.score ELSE 0]])
    /\ UNCHANGED <<variant, form, env, req, invoked, other>>

\* sendViaResend: fetch rejects, caught by the helper's own catch
ResendFetchRejects ==
    /\ pc = "resendFetch"
    /\ \E err \in Errors :
          Fallback([WithError(loc, err) EXCEPT !.resend =
                       FailedWith(variant, RequestFailedReason("Resend", err))])
    /\ UNCHANGED <<variant, form, env, req, invoked, other>>

\* sendViaResend answers and the fallback is issued whatever the answer was
ResendFetchRespondsThenFallback ==
    /\ pc = "resendFetch"
    /\ \E status \in Statuses :
          Fallback([loc EXCEPT !.resendStatus = status,
                               !.resend = IF IsOk(status) THEN Succeeded
                                          ELSE FailedWith(variant, <<>>)])
    /\ UNCHANGED <<variant, form, env, req, invoked, other>>

\* sendViaResend: Resend answers
ResendFetchResponds ==
    /\ pc = "resendFetch"
    /\ \E status \in Statuses :
          IF IsOk(status)
          THEN Return([Got(loc, "status", status, <<>>, NoVerifyData)
                          EXCEPT !.resend = Succeeded, !.resendStatus = status],
                      successResponse(corsHeaders(variant)))
          ELSE /\ pc' = "resendText"
               /\ loc' = [Got(loc, "status", status, <<>>, NoVerifyData)
                              EXCEPT !.resendStatus = status]
               /\ UNCHANGED <<calls, response, uncaught>>
    /\ UNCHANGED <<variant, form, env, req, invoked, other>>

\* sendViaResend: await response.text() rejects, caught by the helper's catch
ResendTextRejects ==
    /\ pc = "resendText"
    /\ \E err \in Errors :
          Fallback([WithError(loc, err) EXCEPT !.resend =
                       FailedWith(variant, RequestFailedReason("Resend", err))])
    /\ UNCHANGED <<variant, form, env, req, invoked, other>>

\* sendViaResend: await response.text() resolves
ResendTextResolves ==
    /\ pc = "resendText"
    /\ \E errText \in Bodies :
          Fallback([Got(loc, "value", 0, errText, NoVerifyData) EXCEPT !.resend =
                       FailedWith(variant, StatusReason("Resend", loc.resendStatus, errText))])
    /\ UNCHANGED <<variant, form, env, req, invoked, other>>

\* a MailChannels exception: caught by sendViaMailChannels in the two-provider
\* variants, by the try of onRequestPost in the others
McThrows(err) ==
    IF variant \in TwoProviderVariants
    THEN DeliveryFailed([WithError(loc, err) EXCEPT !.mc =
                            FailedWith(variant, RequestFailedReason("MailChannels", err))])
    ELSE Throw(loc, err)

\* the MailChannels request rejects
McFetchRejects ==
    /\ pc = "mcFetch"
    /\ \E err \in Errors : McThrows(err)
    /\ UNCHANGED <<variant, form, env, req, invoked, other>>

\* MailChannels answers
McFetchResponds ==
    /\ pc = "mcFetch"
    /\ \E status \in Statuses :
          IF McAccepted(status)
          THEN Return([Got(loc, "status", status, <<>>, NoVerifyData)
                          EXCEPT !.mc = Succeeded, !.mcStatus = status],
                      successResponse(corsHeaders(variant)))
          ELSE /\ pc' = "mcText"
               /\ loc' = [Got(loc, "status", status, <<>>, NoVerifyData)
                              EXCEPT !.mcStatus = status]
               /\ UNCHANGED <<calls, response, uncaught>>
    /\ UNCHANGED <<variant, form, env, req, invoked, other>>

\* await response.text() of the MailChannels answer rejects
McTextRejects ==
    /\ pc = "mcText"
    /\ \E err \in Errors : McThrows(err)
    /\ UNCHANGED <<variant, form, env, req, invoked, other>>

\* await response.text() of the MailChannels answer resolves
McTextResolves ==
    /\ pc = "mcText"
    /\ \E errText \in Bodies :
          DeliveryFailed([Got(loc, "value", 0, errText, NoVerifyData) EXCEPT !.mc =
              [tried |-> TRUE, ok |-> FALSE, hasReason |-> variant \in {"P0", "P1b", "FN"},
               reason |-> IF variant \in {"P0", "P1b", "FN"}
                          THEN StatusReason("MailChannels", loc.mcStatus, errText)
                          ELSE <<>>]])
    /\ UNCHANGED <<variant, form, env, req, invoked, other>>

(***************************************************************************)
(* contact.php                                                             *)
(***************************************************************************)
\* filter_input(INPUT_POST, name, FILTER_SANITIZE_SPECIAL_CHARS) ?? ''
PhpInput(f) == PhpSanitizeSpecialChars(OrEmpty(f))

\* the "Get and sanitize input" block and the honeypot input
PhpNormalize(fd) ==
    [vorname        |-> Trim(PhpInput(fd.vorname)),
     nachname       |-> Trim(PhpInput(fd.nachname)),
     email          |-> Trim(PhpSanitizeEmail(OrEmpty(fd.email))),
     message        |-> Trim(PhpInput(fd.message)),
     privacy        |-> PhpInput(fd.privacy),
     honeypot       |-> PhpInput(fd.website),
     recaptchaToken |-> <<>>]

\* the "Validation" block
PhpValidate(f) ==
       (IF PhpEmpty(f.vorname) THEN <<ErrVorname>> ELSE <<>>)
    \o (IF PhpEmpty(f.nachname) THEN <<ErrNachname>> ELSE <<>>)
    \o (IF PhpEmpty(f.email) \/ ~PhpValidateEmail(f.email) THEN <<ErrEmail>> ELSE <<>>)
    \o (IF PhpEmpty(f.message) THEN <<ErrMessage>> ELSE <<>>)
    \o (IF PhpEmpty(f.privacy) THEN <<ErrPrivacy>> ELSE <<>>)

\* if (!empty($honeypot))
PhpHoneypotTriggered(f) == ~PhpEmpty(f.honeypot)

\* the POST branch of the script, from the input block to the last echo
PhpScript ==
    /\ pc = "php"
    /\ LET f == PhpNormalize(form)
           errs == PhpValidate(f)
           l == [loc EXCEPT !.fields = f, !.parsed = TRUE, !.errors = errs,
                            !.validated = TRUE]
       IN  IF PhpHoneypotTriggered(f)
           THEN Return(l, json(Payload(TRUE, MsgHoneypot), 200, phpHeaders))
           ELSE IF errs # <<>>
                THEN Return(l, json(Payload(FALSE, JoinErrors(errs)), 422, phpHeaders))
                ELSE \E sent \in BOOLEAN :
                        /\ calls' = Append(calls, "mail")
                        /\ pc' = "done"
                        /\ loc' = [l EXCEPT !.mc = IF sent THEN Succeeded
                                                   ELSE FailedWith("PHP", <<>>)]
                        /\ response' =
                              IF sent
                              THEN json(Payload(TRUE, MsgThanks), 200, phpHeaders)
                              ELSE json(Payload(FALSE, MsgGeneric), 500, phpHeaders)
                        /\ UNCHANGED uncaught
    /\ UNCHANGED <<variant, form, env, req, invoked, other>>

(***************************************************************************)
(* The Worker entry points in front of functions/api/contact.js            *)
(***************************************************************************)
\* url.pathname === "/api/contact", and === "/submit" in part_002
isContactRouteBoth(r, path) == path \in {"/api/contact", "/submit"}
isContactRoute(r, path) ==
    path = "/api/contact" \/ (r = "part_002" /\ path = "/submit")

\* new Response(null, ...)
NullBody == [null |-> TRUE]
\* new Response("Method Not Allowed", ...)
TextBody(text) == [text |-> text]
\* the body of whatever the asset server answers
AssetBody == [asset |-> TRUE]

\* onRequestOptions
onRequestOptions200(v) ==
    [status |-> 200, body |-> NullBody,
     headers |-> [h \in {"Access-Control-Allow-Origin"} |-> "*"]]
onRequestOptions(v) ==
    [status  |-> 204,
     body    |-> NullBody,
     headers |->
        [h \in {"Access-Control-Allow-Origin", "Access-Control-Allow-Methods",
                "Access-Control-Allow-Headers"} |->
            CASE h = "Access-Control-Allow-Origin"  -> "*"
              [] h = "Access-Control-Allow-Methods" -> "POST, OPTIONS"
              [] h = "Access-Control-Allow-Headers" ->
                     IF v = "FN" THEN "Content-Type, Accept" ELSE "Content-Type"]]

\* methodNotAllowed
methodNotFound ==
    [status |-> 404, body |-> TextBody("Not Found"), headers |-> <<>>]
methodNotAllowed ==
    [status  |-> 405,
     body    |-> TextBody("Method Not Allowed"),
     headers |-> [h \in {"Allow"} |-> "OPTIONS, POST"]]

\* statuses the asset server answers with
AssetStatuses == {200, 404}

\* fetch(request, env, ctx) up to its return or its await
RouterFetch ==
    /\ pc = "route"
    /\ IF isContactRoute(req.router, req.path)
       THEN CASE req.method = "POST" ->
                   /\ invoked' = Append(invoked, "onRequestPost")
                   /\ pc' = "formData"
                   /\ UNCHANGED <<loc, calls, response, uncaught>>
              [] req.method = "OPTIONS" ->
                   /\ invoked' = Append(invoked, "onRequestOptions")
                   /\ Return(loc, onRequestOptions(variant))
              [] OTHER ->
                   /\ invoked' = Append(invoked, "methodNotAllowed")
                   /\ Return(loc, methodNotAllowed)
       ELSE /\ invoked' = Append(invoked, "ASSETS.fetch")
            /\ pc' = "assets"
            /\ UNCHANGED <<loc, calls, response, uncaught>>
    /\ UNCHANGED <<variant, form, env, req, other>>

\* env.ASSETS.fetch(request) answers
AssetsResponds ==
    /\ pc = "assets"
    /\ \E status \in AssetStatuses :
          Return(loc, [status |-> status, body |-> AssetBody, headers |-> <<>>])
    /\ UNCHANGED <<variant, form, env, req, invoked, other>>

\* env.ASSETS.fetch(request) rejects: fetch has no try
AssetsRejects ==
    /\ pc = "assets"
    /\ \E err \in Errors : Throw(loc, err)
    /\ UNCHANGED <<variant, form, env, req, invoked, other>>

(***************************************************************************)
(* Specification                                                           *)
(***************************************************************************)
Next ==
    \/ FormDataResolves
    \/ FormDataRejects
    \/ VerifyFetchRejects
    \/ VerifyFetchResponds
    \/ VerifyJsonRejects
    \/ VerifyJsonResolves
    \/ ResendFetchRejects
    \/ ResendFetchResponds
    \/ ResendTextRejects
    \/ ResendTextResolves
    \/ McFetchRejects
    \/ McFetchResponds
    \/ McTextRejects
    \/ McTextResolves
    \/ PhpScript

Spec == Init /\ [][Next]_vars

\* one request for each way through the handler: honeypot filled, a field
\* missing, complete without a token, complete with a token
LiveForms ==
    {f \in Forms :
        /\ f.vorname = Val(<<" ", "a">>)
        /\ f.nachname = Val(<<"b", " ">>)
        /\ f.email = Val(<<" ", "a", "@", "b", ".", "c">>)
        /\ f.privacy = Val(<<"o", "n">>)
        /\ f.message \in {Missing, Val(Rep("m", MinMessageLen))}
        /\ f.website \in {Missing, Val(<<"x", " ">>)}}

InitLive ==
    /\ Init
    /\ form \in LiveForms

\* every await the handler is suspended on is eventually settled
FairSpec == InitLive /\ [][Next]_vars /\ WF_vars(Next)

\* requests to a Worker entry point: any method on any path
RouterForms ==
    {f \in Forms :
        /\ f.vorname = Val(<<" ", "a">>)
        /\ f.privacy = Val(<<"o", "n">>)
        /\ f.email \in {Val(<<" ", "a", "@", "b", ".", "c">>), Val(<<"a", "@", "b">>)}
        /\ f.message \in {Val(<<"h", "i">>), Val(Rep("m", MinMessageLen))}}

InitRouter ==
    /\ variant = "FN"
    /\ form \in RouterForms
    /\ env \in [EnvKeys -> BOOLEAN]
    /\ \A k \in EnvKeys \ KeysRead(variant) : ~env[k]
    /\ req \in [router : Routers, method : Methods, path : Paths, ip : {Missing}]
    /\ pc = "route"
    /\ loc = InitLoc
    /\ calls = <<>>
    /\ invoked = <<>>
    /\ response = NoResponse
    /\ uncaught = FALSE
    /\ other = NoInvocation

NextRouter ==
    \/ RouterFetch
    \/ AssetsResponds
    \/ AssetsRejects
    \/ FormDataResolves
    \/ FormDataRejects
    \/ VerifyFetchRejects
    \/ VerifyFetchResponds
    \/ VerifyJsonRejects
    \/ VerifyJsonResolves
    \/ McFetchRejects
    \/ McFetchResponds
    \/ McTextRejects
    \/ McTextResolves

SpecRouter == InitRouter /\ [][NextRouter]_vars

\* submissions whose values carry the characters of HTML markup
HtmlAlphabet == {"<", ">", "&", "\"", "'", "a", "\n"}
HtmlForms ==
    [vorname : {Val(<<"<", "&">>)},
     nachname : {Val(<<"b">>)},
     email : {Val(<<"'", "@", "b", ".", "c">>), Val(<<"a", "@", "\"", ".", ">">>)},
     message : {Val(s \o Rep("m", MinMessageLen)) :
                   s \in StringsUpTo(HtmlAlphabet, MaxHtmlLen)},
     privacy : {Val(<<"o", "n">>)},
     website : {Missing},
     recaptchaToken : {Missing, Val(<<"t">>)}]
HtmlIps == {Missing, Val(<<"<", "1", ">">>)}

InitHtml ==
    /\ variant \in JsVariants
    /\ form \in HtmlForms
    /\ (variant # "FN" => form.recaptchaToken = Missing)
    /\ env \in [EnvKeys -> BOOLEAN]
    /\ \A k \in EnvKeys \ KeysRead(variant) : ~env[k]
    /\ req \in {[DirectPost EXCEPT !.ip = ip] : ip \in HtmlIps}
    /\ (variant # "FN" => req.ip = Missing)
    /\ pc = "formData"
    /\ loc = InitLoc
    /\ calls = <<>>
    /\ invoked = <<>>
    /\ response = NoResponse
    /\ uncaught = FALSE
    /\ other = NoInvocation

\* onRequestPost up to the request that carries the mail
NextHtml ==
    \/ FormDataResolves
    \/ FormDataRejects
    \/ VerifyFetchRejects
    \/ VerifyFetchResponds
    \/ VerifyJsonRejects
    \/ VerifyJsonResolves

SpecHtml == InitHtml /\ [][NextHtml]_vars

\* submissions that differ in the email value only
EmailAlphabet == {"a", "@", ".", " "}
EmailExamples ==
    {<<"a", "@", "b", ".", "c", "o">>,
     <<"n", "o", "t", "-", "a", "n", "-", "e", "m", "a", "i", "l">>}
EmailForms ==
    [vorname : {Val(<<"a">>)},
     nachname : {Val(<<"b">>)},
     email : {Missing} \cup
             {Val(s) : s \in StringsUpTo(EmailAlphabet, MaxEmailLen) \cup EmailExamples},
     message : {Val(Rep("m", MinMessageLen))},
     privacy : {Val(<<"o", "n">>)},
     website : {Missing},
     recaptchaToken : {Missing}]

InitEmail ==
    /\ variant \in JsVariants
    /\ form \in EmailForms
    /\ env = [k \in EnvKeys |-> FALSE]
    /\ req = DirectPost
    /\ pc = "formData"
    /\ loc = InitLoc
    /\ calls = <<>>
    /\ invoked = <<>>
    /\ response = NoResponse
    /\ uncaught = FALSE
    /\ other = NoInvocation

\* onRequestPost up to the end of the validation block
NextEmail ==
    \/ FormDataResolves
    \/ FormDataRejects

SpecEmail == InitEmail /\ [][NextEmail]_vars

\* two POSTs being handled by one isolate: each lacks the message or has a
\* short or a long one, with or without a token
PairForms ==
    {f \in Forms :
        /\ f.vorname = Val(<<" ", "a">>)
        /\ f.nachname = Val(<<"b", " ">>)
        /\ f.email = Val(<<" ", "a", "@", "b", ".", "c">>)
        /\ f.privacy = Val(<<"o", "n">>)
        /\ f.message \in {Missing, Val(<<"h", "i">>), Val(Rep("m", MinMessageLen))}
        /\ f.website = Missing}

\* the replies the services give while two invocations are in progress
PairStatuses == {0, 200, 500}
PairBodies == {<<>>, <<"x", " ">>}
PairVerifyDatas ==
    {NoVerifyData,
     [success |-> TRUE, scoreIsNumber |-> TRUE, score |-> MinScoreTenths,
      action |-> ExpectedAction],
     [success |-> TRUE, scoreIsNumber |-> TRUE, score |-> MinScoreTenths - 1,
      action |-> ExpectedAction]}
PairReplies ==
    \A k \in 1..Len(loc.replies) :
        /\ loc.replies[k].status \in PairStatuses
        /\ loc.replies[k].data \in PairVerifyDatas
        /\ loc.replies[k].text \in PairBodies \cup {<<"TypeError: fetch failed">>}

\* the invocation that is running, as the record it is kept in while suspended
Current ==
    [form |-> form, req |-> req, pc |-> pc, loc |-> loc, calls |-> calls,
     invoked |-> invoked, response |-> response, uncaught |-> uncaught]

\* an invocation that has not run yet
NewInvocation(f) ==
    [form |-> f, req |-> DirectPost, pc |-> "formData", loc |-> InitLoc,
     calls |-> <<>>, invoked |-> <<>>, response |-> NoResponse, uncaught |-> FALSE]

InitPair ==
    /\ variant \in {"P0", "FN"}
    /\ form \in PairForms
    /\ (variant # "FN" => form.recaptchaToken = Missing)
    /\ env \in [EnvKeys -> BOOLEAN]
    /\ \A k \in EnvKeys \ KeysRead(variant) : ~env[k]
    /\ req = DirectPost
    /\ pc = "formData"
    /\ loc = InitLoc
    /\ calls = <<>>
    /\ invoked = <<>>
    /\ response = NoResponse
    /\ uncaught = FALSE
    /\ \E f \in PairForms :
          /\ variant # "FN" => f.recaptchaToken = Missing
          /\ other = NewInvocation(f)

\* the switch when the parsed fields are kept in module scope: the resumed
\* invocation finds the fields the suspended one has left there
YieldSharedFields ==
    /\ other.pc # "none"
    /\ other' = Current
    /\ form' = other.form
    /\ req' = other.req
    /\ pc' = other.pc
    /\ loc' = [other.loc EXCEPT !.fields = loc.fields]
    /\ calls' = other.calls
    /\ invoked' = other.invoked
    /\ response' = other.response
    /\ uncaught' = other.uncaught
    /\ UNCHANGED <<variant, env>>

\* the running invocation is suspended at its await (or has returned) and the
\* event loop resumes the other one; the locals, the request and the response
\* are per call of onRequestPost, env is the isolate's
Yield ==
    /\ other.pc # "none"
    /\ other' = Current
    /\ form' = other.form
    /\ req' = other.req
    /\ pc' = other.pc
    /\ loc' = other.loc
    /\ calls' = other.calls
    /\ invoked' = other.invoked
    /\ response' = other.response
    /\ uncaught' = other.uncaught
    /\ UNCHANGED <<variant, env>>

NextPair ==
    \/ Yield
    \/ FormDataResolves /\ PairReplies'
    \/ FormDataRejects /\ PairReplies'
    \/ VerifyFetchRejects /\ PairReplies'
    \/ VerifyFetchResponds /\ PairReplies'
    \/ VerifyJsonRejects /\ PairReplies'
    \/ VerifyJsonResolves /\ PairReplies'
    \/ ResendFetchRejects /\ PairReplies'
    \/ ResendFetchResponds /\ PairReplies'
    \/ ResendTextRejects /\ PairReplies'
    \/ ResendTextResolves /\ PairReplies'
    \/ McFetchRejects /\ PairReplies'
    \/ McFetchResponds /\ PairReplies'
    \/ McTextRejects /\ PairReplies'
    \/ McTextResolves /\ PairReplies'

SpecPair == InitPair /\ [][NextPair]_vars

(***************************************************************************)
(* assets/js/contact-form.js                                               *)
(***************************************************************************)
\* isValidEmail: the same pattern as the handler's
isValidEmail(email) == EmailRegexTest(email)

\* validateField: FALSE when an error is shown for the field
validateField(id, fieldValue) ==
    LET value == Trim(fieldValue)
    IN  CASE id = "vorname"  -> value # <<>>
          [] id = "nachname" -> value # <<>>
          [] id = "email"    -> value # <<>> /\ isValidEmail(value)
          [] id = "message"  -> value # <<>>
          [] OTHER           -> TRUE

\* isValid of the submit listener: the four fields and the privacy box; fd is
\* new FormData(form), which holds a checkbox only when it is checked
isValid(fd) ==
    /\ \A id \in {"vorname", "nachname", "email", "message"} :
          validateField(id, OrEmpty(fd[id]))
    /\ fd.privacy.has

\* what the visitor has in the form when pressing the submit button
ClientForms ==
    [vorname : {Val(<<>>), Val(<<" ">>), Val(<<" ", "a">>)},
     nachname : NachnameInputs,
     email : (EmailInputs \ {Missing}) \cup {Val(<<>>)},
     message : (MessageInputs \ {Missing}) \cup {Val(<<>>)},
     privacy : {Missing, Val(<<"o", "n">>)},
     website : {Missing},
     recaptchaToken : {Missing}]

\* the page before any request is made
NoRequest == [router |-> "none", method |-> "", path |-> "", ip |-> Missing]

InitClient ==
    /\ variant = "FN"
    /\ form \in ClientForms
    /\ env \in [EnvKeys -> BOOLEAN]
    /\ \A k \in EnvKeys \ {"RECAPTCHA_SECRET"} : ~env[k]
    /\ req = NoRequest
    /\ pc = "submit"
    /\ loc = InitLoc
    /\ calls = <<>>
    /\ invoked = <<>>
    /\ response = NoResponse
    /\ uncaught = FALSE
    /\ other = NoInvocation

\* the submit listener: nothing is sent unless isValid, else the form is
\* POSTed to /api/contact and onRequestPost starts
SubmitListener ==
    /\ pc = "submit"
    /\ IF ~isValid(form)
       THEN pc' = "idle" /\ req' = req
       ELSE pc' = "formData" /\ req' = DirectPost
    /\ UNCHANGED <<variant, form, env, loc, calls, invoked, response, uncaught, other>>

NextClient ==
    \/ SubmitListener
    \/ FormDataResolves
    \/ FormDataRejects

SpecClient == InitClient /\ [][NextClient]_vars

(***************************************************************************)
(* Vocabulary of the properties                                            *)
(***************************************************************************)
Done == pc = "done"
Called(endpoint) == \E i \in 1..Len(calls) : calls[i] = endpoint
MailCalled == Called("resend") \/ Called("mailchannels") \/ Called("mail")
Range(seq) == {seq[i] : i \in 1..Len(seq)}

\* the submission as the JavaScript handlers normalise it
Submission == Normalize(form)
\* the validation error list of the handler variant for the request
ValidationErrors ==
    IF variant = "PHP" THEN PhpValidate(PhpNormalize(form))
    ELSE Validate(variant, Normalize(form))
\* the request got past form parsing
Parsed == loc.parsed
\* the pushes of the validation block in rule order
RuleOrder ==
    <<ErrVorname, ErrNachname, ErrEmail, ErrMessage, ErrMessageShort, ErrPrivacy>>

(***************************************************************************)
(* C1                                                                      *)
(***************************************************************************)
\* C1: a request to a mail provider (Resend, MailChannels, or mail() of
\* contact.php) has been issued only if the validation error list of the
\* request is empty; a request with a validation error has no provider call.
C1_ProviderOnlyWhenValid ==
    MailCalled => (loc.validated /\ loc.errors = <<>> /\ ValidationErrors = <<>>)

\* a valid submission went through both providers of part_000
C1_Witness ==
    /\ Done /\ variant = "P0"
    /\ calls = <<"resend", "mailchannels">>
    /\ ValidationErrors = <<>>

(***************************************************************************)
(* C2                                                                      *)
(***************************************************************************)
\* C2: when the trimmed honeypot field 'website' is non-empty, the response
\* is HTTP 200 with success:true whatever the other fields are, and neither a
\* mail provider nor the verification service is called.
C2_HoneypotAlwaysSucceeds ==
    (Done /\ Parsed /\ Trim(OrEmpty(form.website)) # <<>>) =>
        /\ response.status = 200
        /\ response.body.success
        /\ calls = <<>>

(***************************************************************************)
(* C3                                                                      *)
(***************************************************************************)
\* firstName, lastName, email and message non-empty after trimming, the email
\* matching the pattern, the consent flag present
RequiredPresent ==
    /\ Submission.vorname # <<>>
    /\ Submission.nachname # <<>>
    /\ Submission.email # <<>> /\ EmailRegexTest(Submission.email)
    /\ Submission.message # <<>>
    /\ Submission.privacy # <<>>

\* the response is a 422 for field validation (not the bot gate's 422)
FieldValidation422 ==
    Done /\ response.status = 422 /\ response.body.message \notin SpamMessages

\* C3 as stated: in every onRequestPost variant a submission with all required
\* fields present, a well-formed email and consent has an empty error list.
C3_Original ==
    (variant \in JsVariants /\ loc.validated /\ RequiredPresent) =>
        (loc.errors = <<>> /\ ~FieldValidation422)

\* C3 amended: the same, provided that in the variant with the minimum-length
\* rule (functions/api/contact.js) the trimmed message has at least 10
\* characters.
C3_ValidSubmissionHasNoErrors ==
    (/\ variant \in JsVariants
     /\ loc.validated
     /\ RequiredPresent
     /\ (variant = "FN" => Len(Submission.message) >= MinMessageLen)) =>
        (loc.errors = <<>> /\ ~FieldValidation422)

\* a complete submission with a ten-character message passed the strict validator
C3_Witness ==
    /\ variant = "FN" /\ loc.validated /\ RequiredPresent
    /\ Len(Submission.message) = MinMessageLen
    /\ Done /\ response.status = 200 /\ Called("mailchannels")

(***************************************************************************)
(* C4                                                                      *)
(***************************************************************************)
\* C4: in the onRequestPost variants each field's error string is in the error
\* list exactly when that field itself fails its rule, whatever the other
\* fields are: all failing fields are reported together.
C4_ErrorsIndependent ==
    (variant \in JsVariants /\ loc.validated) =>
        LET E == Range(loc.errors)
        IN  /\ (ErrVorname \in E) <=> (Submission.vorname = <<>>)
            /\ (ErrNachname \in E) <=> (Submission.nachname = <<>>)
            /\ (ErrEmail \in E) <=>
                  (Submission.email = <<>> \/ ~EmailRegexTest(Submission.email))
            /\ (ErrMessage \in E) <=> (Submission.message = <<>>)
            /\ (ErrPrivacy \in E) <=> (Submission.privacy = <<>>)
            /\ (ErrMessageShort \in E) <=>
                  (/\ variant = "FN"
                   /\ Submission.message # <<>>
                   /\ Len(Submission.message) < MinMessageLen)

\* empty firstName and malformed email together, the other fields valid: both
\* errors and only those
C4_Witness ==
    /\ variant = "P1a" /\ loc.validated
    /\ Submission.vorname = <<>> /\ Submission.nachname # <<>>
    /\ Submission.email = <<"a", "@", "b">>
    /\ Submission.message # <<>> /\ Submission.privacy # <<>>
    /\ loc.errors = <<ErrVorname, ErrEmail>>

(***************************************************************************)
(* C5                                                                      *)
(***************************************************************************)
\* C5: in the onRequestPost variants, with an empty honeypot and a non-empty
\* validation error list the response is 422, success:false, its message the
\* collected error strings in rule order joined by one space, and no details.
C5_ValidationResponse ==
    (/\ Done /\ Parsed /\ variant \in JsVariants
     /\ Submission.honeypot = <<>>
     /\ ValidationErrors # <<>>) =>
        /\ response.status = 422
        /\ ~response.body.success
        /\ ~response.body.hasDetails
        /\ response.body.message =
              Join(SelectSeq(RuleOrder, LAMBDA e : e \in Range(ValidationErrors)),
                   <<" ">>)

\* three errors joined: first name, email and consent
C5_Witness ==
    /\ Done /\ variant = "FN" /\ Submission.honeypot = <<>>
    /\ response.status = 422
    /\ response.body.message =
          ErrVorname \o <<" ">> \o ErrEmail \o <<" ">> \o ErrPrivacy

(***************************************************************************)
(* C6                                                                      *)
(***************************************************************************)
\* a provider answered with a status outside 200..299
AnsweredFailure(status) == status # 0 /\ (status < 200 \/ status > 299)
\* the request reached the delivery stage
ReachedDelivery ==
    Parsed /\ Submission.honeypot = <<>> /\ ValidationErrors = <<>>

\* C6: in the two-provider variants, when Resend answers with a failure status
\* and MailChannels answers 202, the response is 200 with success:true, its
\* message is the thank-you text and holds no failure reason of Resend, and
\* there is no details field.
C6_FallbackSuccess ==
    (/\ Done /\ variant \in TwoProviderVariants
     /\ AnsweredFailure(loc.resendStatus)
     /\ loc.mcStatus = 202) =>
        /\ response.status = 200
        /\ response.body.success
        /\ ~response.body.hasDetails
        /\ response.body.message = MsgThanks
        /\ loc.resend.hasReason =>
              /\ loc.resend.reason # <<>>
              /\ ~Includes(response.body.message, loc.resend.reason)
              /\ ~Includes(response.body.message, <<StatusText(loc.resendStatus)>>)

\* Resend answered 401 with a body, MailChannels answered 202
C6_Witness ==
    /\ Done /\ variant = "P0"
    /\ loc.resendStatus = 401 /\ loc.mcStatus = 202
    /\ loc.resend.reason = <<"Resend", " ", "401", ": ", "x">>
    /\ response.status = 200

(***************************************************************************)
(* C7                                                                      *)
(***************************************************************************)
\* C7: in the two-provider variants, when both providers answer with a failure
\* status the response is 500 with success:false and a details field holding
\* the failure reason of Resend, a separator and the failure reason of
\* MailChannels.
C7_BothFailDetails ==
    (/\ Done /\ variant \in TwoProviderVariants
     /\ AnsweredFailure(loc.resendStatus)
     /\ AnsweredFailure(loc.mcStatus)) =>
        /\ response.status = 500
        /\ ~response.body.success
        /\ response.body.hasDetails
        /\ Includes(response.body.details, <<"Resend">>)
        /\ Includes(response.body.details, <<" | ", "MailChannels">>)

(***************************************************************************)
(* C8                                                                      *)
(***************************************************************************)
\* C8: with a verification secret configured, every way the bot gate does not
\* pass (no token, the verification request failing or answering non-OK, a
\* verdict that is not a success with score >= 0.5 and the expected action)
\* ends in a 422 with success:false and a spam-protection message, and no
\* mail provider is called.
C8_GateFailureIs422 ==
    (/\ Done /\ variant = "FN" /\ env["RECAPTCHA_SECRET"]
     /\ ReachedDelivery
     /\ loc.gate # "passed") =>
        /\ response.status = 422
        /\ ~response.body.success
        /\ response.body.message \in SpamMessages
        /\ ~MailCalled

(***************************************************************************)
(* C9                                                                      *)
(***************************************************************************)
\* C9: in the two-provider variants without RESEND_API_KEY no request goes to
\* Resend, a configuration-missing reason is recorded for it and MailChannels
\* is tried; when MailChannels succeeds the response is 200 success:true, and
\* when it fails the recorded reason appears in details.
C9_MissingResendKey ==
    (/\ variant \in TwoProviderVariants /\ ~env["RESEND_API_KEY"]
     /\ ReachedDelivery) =>
        /\ ~Called("resend")
        /\ calls = <<"mailchannels">>
        /\ loc.resend.reason = ReasonResendKeyMissing
        /\ (Done /\ loc.mc.ok) =>
              (response.status = 200 /\ response.body.success)
        /\ (Done /\ ~loc.mc.ok) =>
              /\ response.body.hasDetails
              /\ Includes(response.body.details, ReasonResendKeyMissing)

(***************************************************************************)
(* C10                                                                     *)
(***************************************************************************)
\* C10: in the variant that requires MAILCHANNELS_API_KEY (part_001, second
\* handler), a valid submission without the key is answered 500 with
\* success:false, the "not set up" message and details naming the key, with no
\* provider call; and in no variant does an exception escape onRequestPost.
C10_MissingRequiredKey ==
    /\ ~uncaught
    /\ (/\ variant = "P1b" /\ ~env["MAILCHANNELS_API_KEY"]
        /\ ReachedDelivery) =>
           /\ Done
           /\ response.status = 500
           /\ ~response.body.success
           /\ response.body.message = MsgNotSetUp
           /\ response.body.hasDetails
           /\ response.body.details = <<"MAILCHANNELS_API_KEY fehlt">>
           /\ calls = <<>>

\* the key-required variant answered a valid submission without its key
C10_Witness ==
    /\ variant = "P1b" /\ ~env["MAILCHANNELS_API_KEY"]
    /\ ReachedDelivery /\ Done
    /\ response.status = 500 /\ calls = <<>>

(***************************************************************************)
(* C11: every exception ends in the 500 response that names it             *)
(***************************************************************************)
\* an exception was raised at one of the awaits of the invocation
Raised == loc.err # <<>>

\* C11: whenever an exception was raised anywhere in the handling of a POST,
\* the invocation ends with no exception escaping onRequestPost and with the
\* HTTP 500 response whose body has success false, the generic message and
\* the text of the exception in details.
C11_ExceptionIs500WithDetails ==
    (Done /\ variant \in JsVariants /\ Raised) =>
        /\ ~uncaught
        /\ response.status = 500
        /\ ~response.body.success
        /\ response.body.message = MsgGeneric
        /\ response.body.hasDetails
        /\ Includes(response.body.details, loc.err)

(***************************************************************************)
(* C12: message is a fixed string                                          *)
(***************************************************************************)
\* the message literals of the handlers other than the validation errors
FixedMessages ==
    {MsgHoneypot, MsgThanks, MsgSpamNoToken, MsgSpamUnverified, MsgSpamRejected,
     MsgGeneric, MsgNotSetUpDirect, MsgNotSetUp, MsgSendFailed}
\* the non-empty selections of validation errors, joined by a space
ValidationMessages ==
    {Join(SelectSeq(RuleOrder, LAMBDA e : e \in S), <<" ">>) :
        S \in (SUBSET Range(RuleOrder)) \ {{}}}
\* tokens that come from a provider reply, its status or an exception
ProviderTokens ==
    {"x"} \cup {StatusText(n) : n \in Statuses}
          \cup UNION {Range(err) : err \in Errors}

\* C12: the message of every response is one of the fixed localized strings or
\* a space-joined selection of the fixed validation errors, and holds no token
\* of a provider response body, a provider status or an exception text.
C12_MessageIsFixedText ==
    Done /\ ~uncaught =>
        /\ response.body.message \in FixedMessages \cup ValidationMessages
        /\ \A i \in 1..Len(response.body.message) :
              response.body.message[i] \notin ProviderTokens

\* a failed delivery whose provider text is in details and not in message
C12_Witness ==
    /\ Done /\ loc.mc.tried /\ ~loc.mc.ok
    /\ response.body.hasDetails
    /\ Includes(response.body.details, <<"x">>)
    /\ response.body.message \in {MsgNotSetUpDirect, MsgSendFailed}

(***************************************************************************)
(* C13-C16: the routes in front of the handler                             *)
(***************************************************************************)
\* the request path is a contact route of the entry point that receives it
ContactRoute ==
    \/ req.path = "/api/contact"
    \/ req.router = "part_002" /\ req.path = "/submit"
\* the entry point has invoked the named function
Invoked(name) == \E i \in 1..Len(invoked) : invoked[i] = name
\* the response has the header with one of the values
HasHeader(name, values) ==
    name \in DOMAIN response.headers /\ response.headers[name] \in values

\* C13: an OPTIONS request on the contact route is answered 204 with a null
\* body and exactly the three Access-Control-Allow-* headers, whatever the
\* request body and the environment are, and no outbound call is made.
C13_OptionsIs204 ==
    (Done /\ ContactRoute /\ req.method = "OPTIONS") =>
        /\ ~uncaught
        /\ response.status = 204
        /\ response.body = NullBody
        /\ DOMAIN response.headers =
              {"Access-Control-Allow-Origin", "Access-Control-Allow-Methods",
               "Access-Control-Allow-Headers"}
        /\ response.headers["Access-Control-Allow-Origin"] = "*"
        /\ response.headers["Access-Control-Allow-Methods"] = "POST, OPTIONS"
        /\ response.headers["Access-Control-Allow-Headers"] = "Content-Type, Accept"
        /\ calls = <<>>

\* a preflight answered although every key is configured and the body is a
\* complete submission
C13_Witness ==
    /\ Done /\ ContactRoute /\ req.method = "OPTIONS" /\ req.path = "/submit"
    /\ response.status = 204
    /\ env["RECAPTCHA_SECRET"] /\ env["MAILCHANNELS_API_KEY"]
    /\ Validate(variant, Normalize(form)) = <<>>

\* C14: on the contact route a method other than POST and OPTIONS is answered
\* 405 with an Allow header, and neither onRequestPost nor onRequestOptions nor
\* the asset server is invoked.
C14_OtherMethodIs405 ==
    (ContactRoute /\ req.method \notin {"POST", "OPTIONS"}) =>
        /\ ~Invoked("onRequestPost")
        /\ ~Invoked("onRequestOptions")
        /\ ~Invoked("ASSETS.fetch")
        /\ calls = <<>>
        /\ pc \in {"route", "done"}
        /\ Done => /\ response.status = 405
                   /\ "Allow" \in DOMAIN response.headers
                   /\ ~uncaught

C14_Witness ==
    /\ Done /\ ContactRoute /\ req.method = "DELETE" /\ req.path = "/submit"
    /\ response.status = 405

\* C15: every response for the contact route carries the CORS headers that
\* allow any origin, the POST and OPTIONS methods and the Content-Type header.
C15_EveryResponseHasCors ==
    (Done /\ ContactRoute /\ ~uncaught) =>
        /\ HasHeader("Access-Control-Allow-Origin", {"*"})
        /\ HasHeader("Access-Control-Allow-Methods", {"POST, OPTIONS"})
        /\ HasHeader("Access-Control-Allow-Headers",
                     {"Content-Type", "Content-Type, Accept"})

\* C16: a request whose path is not a contact route is handed to the asset
\* server whatever its method, and the contact handlers are never invoked for
\* it; a request on a contact route is never handed to the asset server.
C16_OnlyOtherPathsDelegate ==
    /\ ~ContactRoute =>
          /\ ~Invoked("onRequestPost") /\ ~Invoked("onRequestOptions")
          /\ ~Invoked("methodNotAllowed")
          /\ calls = <<>>
          /\ pc # "route" => invoked = <<"ASSETS.fetch">>
    /\ ContactRoute => ~Invoked("ASSETS.fetch") /\ pc # "assets"

\* /submit delegated by the entry point that does not register it
C16_Witness ==
    /\ Done /\ req.router = "part_003" /\ req.path = "/submit"
    /\ req.method = "POST" /\ invoked = <<"ASSETS.fetch">>
    /\ response.body = AssetBody

(***************************************************************************)
(* C17: request values in the HTML body are escaped                        *)
(***************************************************************************)
\* the tokens of s from position i on start with t
StartsAt(s, i, t) == i + Len(t) - 1 <= Len(s) /\ SubSeq(s, i, i + Len(t) - 1) = t
\* s has none of the characters < > " ' and no & other than the first
\* character of one of the five entities
NoRawMarkup(s) ==
    \A i \in 1..Len(s) :
        /\ s[i] \notin {"<", ">", "\"", "'"}
        /\ s[i] = "&" =>
              \E ent \in {EntAmp, EntLt, EntGt, EntQuot, EntApos} : StartsAt(s, i, ent)
\* the entity of one character, character by character
EntityOf(c) ==
    CASE c = "&" -> EntAmp [] c = "<" -> EntLt [] c = ">" -> EntGt
      [] c = "\"" -> EntQuot [] c = "'" -> EntApos [] OTHER -> <<c>>
RECURSIVE Escaped(_)
Escaped(s) == IF s = <<>> THEN <<>> ELSE EntityOf(Head(s)) \o Escaped(Tail(s))
\* the mail of the invocation has been composed
Composed == loc.htmlBody # <<>>

\* C17: in the composed HTML body the full name, the email, the message and (in
\* the variant that reads it) the client address appear as their escaped
\* forms, each character replaced by its entity, and the body holds no raw
\* < > " ' and no & that does not start an entity, so a message <a> appears
\* only as &lt;a&gt;.
C17_HtmlBodyEscaped ==
    Composed =>
        /\ NoRawMarkup(loc.htmlBody)
        /\ \A x \in {FullName(Submission), Submission.email} \cup
                    (IF variant = "FN" THEN {ClientIp(req.ip)} ELSE {}) :
              /\ NoRawMarkup(escapeHtml(x))
              /\ Includes(loc.htmlBody, Escaped(x))
        /\ NoRawMarkup(escapeHtml(Submission.message))
        /\ Includes(loc.htmlBody,
                    ReplaceAll(Escaped(Submission.message), "\n", <<"<br>">>))

\* a mail composed from a message that starts with <& and an email with a quote
C17_Witness ==
    /\ Composed /\ variant = "FN" /\ Called("mailchannels")
    /\ SubSeq(Submission.message, 1, 2) = <<"<", "&">>
    /\ Includes(Submission.email, <<"'">>)
    /\ req.ip.has
    /\ Includes(loc.htmlBody, EntLt \o EntAmp \o <<"m">>)

(***************************************************************************)
(* C18: the honeypot response has the shape of a delivery                  *)
(***************************************************************************)
\* the handler answered from its honeypot branch
HoneypotAnswered ==
    /\ Done /\ Parsed
    /\ IF variant = "PHP"
       THEN loc.errors = <<>> /\ PhpHoneypotTriggered(loc.fields)
       ELSE HoneypotTriggered(loc.fields)
\* the handler answered after a provider accepted the mail
Delivered == Done /\ (loc.resend.ok \/ loc.mc.ok)
\* the keys of the JSON body
BodyKeys(b) ==
    IF b.hasDetails THEN {"success", "message", "details"} ELSE {"success", "message"}
\* the headers every JSON response of the variant is sent with
HandlerHeaders == IF variant = "PHP" THEN phpHeaders ELSE corsHeaders(variant)

\* C18: the response of the honeypot branch and the response after a delivery
\* have one shape: status 200, the same headers, and a JSON body whose keys
\* are exactly success and message, with success true.
C18_HoneypotLooksDelivered ==
    (HoneypotAnswered \/ Delivered) =>
        /\ response.status = 200
        /\ response.headers = HandlerHeaders
        /\ BodyKeys(response.body) = {"success", "message"}
        /\ response.body.success

\* the honeypot branch taken for a submission that is otherwise complete
C18_Witness ==
    /\ HoneypotAnswered /\ variant = "FN"
    /\ Validate(variant, Normalize(form)) = <<>>
    /\ response.body.message = MsgHoneypot

(***************************************************************************)
(* C19: the email rule                                                     *)
(***************************************************************************)
\* x is non-empty and has neither whitespace nor @
IsPart(x) == x # <<>> /\ \A k \in 1..Len(x) : x[k] \notin {" ", "\t", "\n", "@"}
\* s is X@Y.Z for three such parts
IsXatYdotZ(s) ==
    \E i \in 1..Len(s) : \E j \in 1..Len(s) :
        LET X == SubSeq(s, 1, i - 1)
            Y == SubSeq(s, i + 1, j - 1)
            Z == SubSeq(s, j + 1, Len(s))
        IN  /\ i < j
            /\ s = X \o <<"@">> \o Y \o <<".">> \o Z
            /\ IsPart(X) /\ IsPart(Y) /\ IsPart(Z)
\* the email value of the request, trimmed
TrimmedEmail == Trim(OrEmpty(form.email))

\* C19: in a submission that is complete apart from its email, the email
\* error is produced exactly when the trimmed email is not of the form X@Y.Z
\* with X, Y, Z non-empty and free of whitespace and @: such an email passes
\* validation, every other one (the empty one and not-an-email included) is
\* answered 422 with the email error.
C19_EmailRule ==
    loc.validated =>
        IF IsXatYdotZ(TrimmedEmail)
        THEN loc.errors = <<>> /\ response.status # 422
        ELSE /\ loc.errors = <<ErrEmail>>
             /\ response.status = 422
             /\ response.body.message = ErrEmail

\* an address padded with a space is accepted and the mail request is issued
C19_Witness ==
    /\ loc.validated
    /\ OrEmpty(form.email) = <<" ", "a", "@", "a", ".", "a">>
    /\ loc.errors = <<>>
    /\ Called("mailchannels")

(***************************************************************************)
(* C20: the order of the outbound requests                                 *)
(***************************************************************************)
\* the handler is suspended on the named exchange
Outstanding(endpoint) ==
    CASE endpoint = "resend"     -> pc \in {"resendFetch", "resendText"}
      [] endpoint = "siteverify" -> pc \in {"verifyFetch", "verifyJson"}
      [] OTHER                   -> pc \in {"mcFetch", "mcText"}

\* C20: in the two-provider variants the MailChannels request is issued only
\* when the Resend attempt was skipped or has completed as a failure, never
\* after a Resend success and never while Resend is outstanding; in the variant
\* with the bot gate the MailChannels request is issued only when the gate is
\* off or the verification call has completed with a pass.
C20_RequestOrder ==
    /\ (variant \in TwoProviderVariants /\ Called("mailchannels")) =>
          /\ ~Outstanding("resend")
          /\ ~loc.resend.ok
          /\ \/ calls = <<"mailchannels">> /\ ~env["RESEND_API_KEY"]
             \/ /\ calls = <<"resend", "mailchannels">>
                /\ loc.resend.tried
                /\ \/ Raised
                   \/ AnsweredFailure(loc.resendStatus)
    /\ (variant \in TwoProviderVariants /\ loc.resend.ok) => ~Called("mailchannels")
    /\ (variant = "FN" /\ Called("mailchannels")) =>
          /\ ~Outstanding("siteverify")
          /\ \/ calls = <<"mailchannels">> /\ ~env["RECAPTCHA_SECRET"]
             \/ calls = <<"siteverify", "mailchannels">> /\ loc.gate = "passed"

\* the fallback outstanding after Resend answered with a failure status
C20_Witness ==
    /\ variant = "P1a" /\ pc = "mcFetch"
    /\ calls = <<"resend", "mailchannels">>
    /\ AnsweredFailure(loc.resendStatus)

(***************************************************************************)
(* C21: provider exceptions become failure reasons                         *)
(***************************************************************************)
\* an exception was raised at an await of the named provider helper
RaisedAt(provider) ==
    Raised /\ loc.errAt \in (IF provider = "resend"
                             THEN {"resendFetch", "resendText"}
                             ELSE {"mcFetch", "mcText"})

\* C21: an exception raised by a provider call is recorded as the failure of
\* that provider (with the exception text in its reason where reasons are
\* kept), the fallback is still issued after a Resend exception, and the
\* invocation ends with a response that is not the one of the top-level catch:
\* the exception does not escape and the provider is on record as tried.
C21_ProviderExceptionIsFailure ==
    /\ (variant \in JsVariants /\ RaisedAt("resend")) =>
          /\ loc.resend.tried /\ ~loc.resend.ok
          /\ Called("mailchannels")
          /\ variant = "P0" => Includes(loc.resend.reason, loc.err)
    /\ (variant \in JsVariants /\ RaisedAt("mailchannels")) =>
          /\ Done /\ ~uncaught
          /\ loc.mc.tried /\ ~loc.mc.ok
          /\ variant = "P0" => Includes(loc.mc.reason, loc.err)

(***************************************************************************)
(* C22: the bot-score gate                                                 *)
(***************************************************************************)
\* C22: with a verification secret configured, the mail request is issued only
\* after the verification service answered with a status in 200..299 and a
\* reply whose success is true, whose score is a number of at least 0.5 and
\* whose action is kontaktformular; without a secret the verification service
\* is never called and a valid submission goes on to the mail request.
C22_GateConditions ==
    variant = "FN" =>
        /\ (env["RECAPTCHA_SECRET"] /\ Called("mailchannels")) =>
              /\ calls[1] = "siteverify"
              /\ loc.verifyStatus >= 200 /\ loc.verifyStatus <= 299
              /\ loc.verifyData.success
              /\ loc.verifyData.scoreIsNumber
              /\ loc.verifyData.score >= MinScoreTenths
              /\ loc.verifyData.action = ExpectedAction
        /\ ~env["RECAPTCHA_SECRET"] =>
              /\ ~Called("siteverify")
              /\ (ReachedDelivery /\ pc # "formData") => Called("mailchannels")

\* the mail request outstanding after the verification service let it pass
C22_Witness ==
    /\ variant = "FN" /\ env["RECAPTCHA_SECRET"] /\ pc = "mcFetch"
    /\ calls = <<"siteverify", "mailchannels">>
    /\ loc.verifyStatus = 202
    /\ loc.verifyData.score = MinScoreTenths

(***************************************************************************)
(* C23: failure reasons are sanitized excerpts                             *)
(***************************************************************************)
\* characters that only a provider body or an exception text brings in
DrawnChars == {"x", "E", "e", "\t"}
\* how many of them s holds
DrawnCount(s) == Cardinality({i \in 1..Len(s) : s[i] \in DrawnChars})
\* s has no tab or newline and no two whitespace characters in a row
NoSpaceRun(s) ==
    /\ \A i \in 1..Len(s) : s[i] \notin {"\t", "\n"}
    /\ \A i \in 1..(Len(s) - 1) : ~(IsSpace(s[i]) /\ IsSpace(s[i + 1]))
\* the failure reasons that make up the details of the response
ReasonsInDetails ==
    IF variant = "P0" /\ (loc.resend.hasReason \/ loc.mc.hasReason)
    THEN {r \in {loc.resend.reason, loc.mc.reason} : Includes(response.body.details, r)}
    ELSE {response.body.details}

\* C23: every failure reason in the details of a response, whether it comes
\* from a provider response body or from a caught exception, has its
\* whitespace runs collapsed and holds at most 220 characters of the provider
\* or exception text.
C23_DetailsSanitized ==
    (Done /\ variant \in JsVariants /\ response.body.hasDetails) =>
        \A r \in ReasonsInDetails :
            NoSpaceRun(r) /\ DrawnCount(r) <= MaxErrorText

(***************************************************************************)
(* C24: classification of provider answers                                 *)
(***************************************************************************)
\* the status lies in 200..299
Is2xx(status) == status >= 200 /\ status <= 299
\* the request got past honeypot, validation and the gate
PassedGate == ReachedDelivery /\ (variant = "FN" => loc.gate \in {"off", "passed"})

\* C24: a provider that has answered is on record as successful exactly when
\* its status lies in 200..299, and a request that got past honeypot,
\* validation and gate is answered 200 with success true and the thank-you
\* message exactly when a provider is on record as successful.
C24_SuccessIs2xx ==
    variant \in JsVariants =>
        /\ loc.resendStatus # 0 => (loc.resend.ok <=> Is2xx(loc.resendStatus))
        /\ loc.mcStatus # 0 => (loc.mc.ok <=> Is2xx(loc.mcStatus))
        /\ loc.resend.ok => loc.resendStatus # 0
        /\ loc.mc.ok => loc.mcStatus # 0
        /\ (Done /\ ~uncaught /\ PassedGate) =>
              ((/\ response.status = 200
                /\ response.body.success
                /\ response.body.message = MsgThanks)
               <=> (loc.resend.ok \/ loc.mc.ok))

\* delivered by the fallback with 202 after the first provider answered 401
C24_Witness ==
    /\ Done /\ variant = "P0"
    /\ loc.resendStatus = 401 /\ loc.mcStatus = 202
    /\ response.status = 200 /\ response.body.message = MsgThanks

(***************************************************************************)
(* C25: no endpoint is called twice                                        *)
(***************************************************************************)
\* how many requests to the endpoint the invocation has issued
CallCount(endpoint) == Cardinality({i \in 1..Len(calls) : calls[i] = endpoint})
\* how many requests that carry the mail it has issued
MailRequests == CallCount("resend") + CallCount("mailchannels") + CallCount("mail")

\* C25: one invocation issues at most one request to each provider and at most
\* one to the verification service: at most two mail requests in the
\* two-provider variants and at most one in the others.
C25_AtMostOneCallEach ==
    /\ \A endpoint \in {"resend", "mailchannels", "siteverify", "mail"} :
          CallCount(endpoint) <= 1
    /\ MailRequests <= (IF variant \in TwoProviderVariants THEN 2 ELSE 1)

\* both providers failed and the invocation ended without another request
C25_Witness ==
    /\ Done /\ variant = "P0" /\ response.status = 500
    /\ calls = <<"resend", "mailchannels">>
    /\ AnsweredFailure(loc.resendStatus) /\ AnsweredFailure(loc.mcStatus)

(***************************************************************************)
(* C26: every invocation returns                                           *)
(***************************************************************************)
\* the invocation has returned a response
Returned == Done /\ ~uncaught /\ response.status # 0

\* C26: when every await is eventually settled, every invocation eventually
\* returns a response, and a response once returned is the only one: nothing
\* of the invocation changes afterwards.
C26_EventuallyOneResponse ==
    /\ <>Returned
    /\ [][Done => UNCHANGED vars]_vars
    /\ [](response.status # 0 => Done)

\* an invocation that returned from its catch block
C26_Witness ==
    /\ Returned /\ Raised /\ loc.errAt = "verifyJson"
    /\ response.status = 500

(***************************************************************************)
(* C27: interleaved invocations do not affect each other                   *)
(***************************************************************************)
\* the replies an invocation has received so far
Replies(i) == i.loc.replies
\* what an invocation has done so far
Outcome(i) ==
    [pc |-> i.pc, response |-> i.response, calls |-> i.calls, uncaught |-> i.uncaught]
\* the locals an invocation computes from its request are those of its own
\* request
OwnLocals(i) ==
    /\ i.loc.parsed => i.loc.fields = Normalize(i.form)
    /\ i.loc.validated => i.loc.errors = Validate(variant, Normalize(i.form))
    /\ i.loc.htmlBody # <<>> =>
          i.loc.htmlBody = htmlBody(variant, Normalize(i.form), i.req.ip, i.loc.score)
    /\ i.response.status = 422 /\ i.loc.gate = "none" =>
          i.response.body.message = JoinErrors(Validate(variant, Normalize(i.form)))
\* two invocations got the same request and the same replies
SameInputs(i, j) ==
    /\ i.form = j.form
    /\ i.req = j.req
    /\ Replies(i) = Replies(j)

\* C27: however two invocations are interleaved at their awaits, each one's
\* locals are computed from its own request, and two invocations with the same
\* request that have received the same replies have made the same calls and
\* given the same response, whichever of them ran first or was suspended in
\* between
C27_InvocationsIndependent ==
    other.pc # "none" =>
        /\ OwnLocals(Current)
        /\ OwnLocals(other)
        /\ (SameInputs(Current, other) => Outcome(Current) = Outcome(other))

\* both invocations are suspended part-way through delivery of different
\* requests: one awaits the body of a failed MailChannels answer after its
\* Resend request failed, the other awaits the MailChannels answer
C27_Witness ==
    /\ pc = "mcFetch" /\ other.pc = "mcText"
    /\ Current.form # other.form
    /\ other.loc.resendStatus = 500 /\ other.loc.mcStatus = 500
    /\ Len(calls) = 2 /\ Len(other.calls) = 2

(***************************************************************************)
(* C28: success flag, status and details agree                             *)
(***************************************************************************)
\* C28: in every response of onRequestPost the body's success flag is true
\* exactly when the status is 200, and a details field occurs on responses
\* with status 500 only
C28_SuccessStatusDetails ==
    Done /\ ~uncaught /\ variant \in JsVariants =>
        /\ response.body.success <=> response.status = 200
        /\ response.body.hasDetails => response.status = 500

\* a failure response that carries details
C28_Witness ==
    /\ Done /\ ~uncaught /\ variant = "FN"
    /\ response.status = 500
    /\ ~response.body.success
    /\ response.body.hasDetails
    /\ response.body.details # <<>>
    /\ loc.mc.tried

(***************************************************************************)
(* C29: the order of the stages of the bot-gate handler                    *)
(***************************************************************************)
\* the position of the first request to an endpoint, 0 when there is none
FirstCall(endpoint) ==
    IF Called(endpoint)
    THEN CHOOSE i \in 1..Len(calls) :
            calls[i] = endpoint /\ \A j \in 1..(i - 1) : calls[j] # endpoint
    ELSE 0
SecretSet == env["RECAPTCHA_SECRET"]
TokenGiven == Submission.recaptchaToken # <<>>

\* C29: in functions/api/contact.js the stages run in the order honeypot,
\* validation, verification, delivery: a filled honeypot is answered before
\* validation, the verification service is called only for a request with an
\* empty honeypot and no validation error and never after the mail request,
\* and with a secret configured and an empty token the request is rejected
\* with the no-token message and no request to the verification service
C29_StageOrder ==
    variant = "FN" =>
        /\ Called("siteverify") =>
              /\ ~HoneypotTriggered(Submission)
              /\ ~ValidationFailed(ValidationErrors)
              /\ SecretSet /\ TokenGiven
        /\ Called("mailchannels") =>
              /\ ~HoneypotTriggered(Submission)
              /\ ~ValidationFailed(ValidationErrors)
              /\ SecretSet => Called("siteverify") /\ loc.gate = "passed"
                                /\ FirstCall("siteverify") < FirstCall("mailchannels")
        /\ Done /\ Parsed /\ HoneypotTriggered(Submission) =>
              response.status = 200 /\ calls = <<>>
        /\ Done /\ Parsed /\ ~HoneypotTriggered(Submission)
                /\ ValidationFailed(ValidationErrors) =>
              response.status = 422 /\ calls = <<>>
        /\ Done /\ Parsed /\ ~HoneypotTriggered(Submission)
                /\ ~ValidationFailed(ValidationErrors) /\ SecretSet /\ ~TokenGiven =>
              /\ response.status = 422
              /\ response.body.message = MsgSpamNoToken
              /\ calls = <<>>

\* a submission that passed all four stages: verified, then delivered
C29_Witness ==
    /\ variant = "FN" /\ Done
    /\ SecretSet /\ TokenGiven
    /\ calls = <<"siteverify", "mailchannels">>
    /\ response.status = 200

(***************************************************************************)
(* C30: the client's validation against the handler's                      *)
(***************************************************************************)
\* the page has sent the form
Posted == req.method = "POST" /\ req.path = "/api/contact"

\* C30 as stated: the script POSTs only a form whose four fields pass
\* validateField and whose privacy box is checked, and the handler it posts to
\* answers no such form with a field-validation 422
C30_ClientRefinesServer ==
    /\ Posted => isValid(form)
    /\ Posted /\ Done => ~FieldValidation422
====
